---- MODULE Spec2Model ----
(***************************************************************************)
(* Model of the shasper network layer:                                     *)
(*   - blockchain/network/src/rpc/codec/ssz.rs : SSZInboundCodec and       *)
(*     SSZOutboundCodec over the unsigned-varint length-delimited framer   *)
(*     (UviBytes);                                                         *)
(*   - blockchain/network/src/service.rs : Service::new and the            *)
(*     Stream::poll of Service.                                            *)
(* Bytes are naturals 0..255, byte buffers are sequences of bytes.         *)
(***************************************************************************)
EXTENDS Integers, Sequences, FiniteSets, TLC

VARIABLES
    debug_assertions, \* the build: cfg!(debug_assertions), debug_assert! is compiled in
    built,        \* "new" before the codecs of the substream are constructed, then
                  \* "built", or "panicked" when a constructor has panicked
    protocol,     \* ProtocolId of the substream: message_name, version, encoding
    enc_max,      \* max_packet_size of the codec that encodes
    dec_max,      \* max_packet_size of the codec that decodes
    dir,          \* "request": outbound encodes, inbound decodes; "response": the reverse
    wire,         \* bytes written by the encoder (dst) and not yet read by the decoder
    src,          \* the decoder's read buffer (src: &mut BytesMut)
    len,          \* UviBytes.len of the decoding codec: the pending frame length, or NoLen
    sent,         \* history: one record per encode call / raw write of the remote
    last,         \* the most recent decode / decode_error call: its input and its result
    got,          \* history: the items the decode calls have returned (Ok(Some(_))), in order
    closed,       \* the remote has closed its writing side
    dead,         \* the decoding codec has panicked (unreachable!)
    pc,           \* Service::new: the call in progress, then "Running" (Ok(Service)) or
                  \* "BehaviourFailed" / "ListenFailed" (the two Err returns)
    config,       \* NetworkConfig: libp2p_nodes and topics
    listening,    \* Swarm::listen_on has succeeded
    dials,        \* history: one record per Swarm::dial_addr call
    subs,         \* history: one record per swarm.subscribe call
    ready,        \* the BehaviourEvents the swarm has ready, oldest first
    ended,        \* the swarm's event stream has ended
    produced,     \* history: every event the swarm has made ready
    emitted,      \* history: every Libp2pEvent Service::poll has returned
    polled,       \* the most recent Service::poll call and its result
    block,        \* a Block of the chain: the fields of its BeaconBlock the model keeps
    parent        \* the answer of the most recent parent_id call on block, or NotAsked

codecVars == <<debug_assertions, built, protocol, enc_max, dec_max, dir, wire, src, len, sent, last, got, closed, dead>>
serviceVars == <<pc, config, listening, dials, subs, ready, ended, produced, emitted, polled>>
blockVars == <<block, parent>>
vars == <<codecVars, serviceVars, blockVars>>

-----------------------------------------------------------------------------
(* Bounds of the model *)

\* longest list of block roots in a RecentBeaconBlocksRequest
MaxRoots == 2
\* longest pre-encoded byte payload of a BeaconBlocks / RecentBeaconBlocks response
MaxPayload == 2
\* longest error message of an ErrorMessage
MaxMsg == 1
\* longest raw byte string the remote writes
MaxRaw == 3
\* most requests written back to back on one substream
MaxFrames == 2
\* most items the decode calls of one substream return before the model stops calling
MaxGot == 2
\* most statically configured peer addresses (config.libp2p_nodes)
MaxNodes == 2
\* most operator-supplied extra topics (config.topics)
MaxExtra == 1
\* most events the swarm makes ready
MaxEvents == 3
\* bytes of a hash in the model (an H256 has 32)
HashLen == 3
\* highest slot of a block
MaxSlot == 1

\* values a numeric message field takes in the model
FieldVals == {1, 7}
\* values of one byte of an opaque payload, error message or block root
PayloadBytes == {0, 9}
\* values of one byte of a hash
HashBytes == {0, 1, 255}
\* bytes the remote may write raw: small lengths, and a varint continuation byte
RawBytes == {0, 1, 2, 129}
\* the max_packet_size values a codec is constructed with
PacketSizes == {1, 4}

\* all sequences over S of length at most n
RECURSIVE SeqsUpTo(_, _)
SeqsUpTo(S, n) ==
    IF n = 0 THEN {<<>>}
    ELSE LET shorter == SeqsUpTo(S, n - 1)
         IN  shorter \cup {Append(s, x) : s \in {t \in shorter : Len(t) = n - 1}, x \in S}

Take(s, n) == SubSeq(s, 1, n)
Drop(s, n) == SubSeq(s, n + 1, Len(s))

-----------------------------------------------------------------------------
(* unsigned-varint: encode::usize / decode::usize *)

\* a usize varint is at most this many bytes; a longer one is decode::Error::Overflow
UsizeVarintBytes == 10

RECURSIVE encode_usize(_)
encode_usize(n) ==
    IF n < 128 THEN <<n>>
    ELSE <<(n % 128) + 128>> \o encode_usize(n \div 128)

RECURSIVE decode_usize_from(_, _, _, _)
decode_usize_from(buf, i, acc, mult) ==
    IF i > Len(buf) THEN [kind |-> "Insufficient", n |-> 0, consumed |-> 0]
    ELSE LET b == buf[i]
             k == acc + (b % 128) * mult
         IN  IF b < 128 THEN [kind |-> "Ok", n |-> k, consumed |-> i]
             ELSE IF i = UsizeVarintBytes THEN [kind |-> "Overflow", n |-> 0, consumed |-> 0]
             ELSE decode_usize_from(buf, i + 1, k, mult * 128)

decode_usize(buf) == decode_usize_from(buf, 1, 0, 1)

-----------------------------------------------------------------------------
(* unsigned_varint::codec::UviBytes *)

NoLen == -1

\* the RPCError an io::Error of the framer is mapped to by RPCError::from
FramingViolation == [kind |-> "Err", val |-> [tag |-> "FramingViolation"]]

\* UviBytes::decode: [res, packet, len, src] with res in {"Some", "None", "Err"}
UviBytes_decode(l, max, buf) ==
    LET d    == IF l = NoLen THEN decode_usize(buf)
                ELSE [kind |-> "Ok", n |-> l, consumed |-> 0]
    IN  IF d.kind = "Overflow"
        THEN [res |-> "Err", packet |-> <<>>, len |-> NoLen, src |-> buf]
        ELSE IF d.kind = "Insufficient"
        THEN [res |-> "None", packet |-> <<>>, len |-> NoLen, src |-> buf]
        ELSE LET rest == Drop(buf, d.consumed)
             IN  IF d.n > max
                 THEN [res |-> "Err", packet |-> <<>>, len |-> NoLen, src |-> rest]
                 ELSE IF d.n <= Len(rest)
                 THEN [res |-> "Some", packet |-> Take(rest, d.n), len |-> NoLen,
                       src |-> Drop(rest, d.n)]
                 ELSE [res |-> "None", packet |-> <<>>, len |-> d.n, src |-> rest]

\* UviBytes::encode: [ok, dst]
UviBytes_encode(max, bytes, dst) ==
    IF Len(bytes) > max
    THEN [ok |-> FALSE, dst |-> dst]
    ELSE [ok |-> TRUE, dst |-> dst \o encode_usize(Len(bytes)) \o bytes]

-----------------------------------------------------------------------------
(* rpc::methods and the ssz crate: message types and their serialization.  *)
(* Every numeric field is one byte wide; a struct with a list field starts *)
(* with the element count.                                                 *)

HelloMessages == [version : FieldVals, network_id : FieldVals]
GoodbyeReasons == [reason : FieldVals]
BeaconBlocksRequests == [start : FieldVals, count : FieldVals, step : FieldVals]
RecentBeaconBlocksRequests == [block_roots : SeqsUpTo(PayloadBytes, MaxRoots)]
ErrorMessages == [error_message : SeqsUpTo(PayloadBytes, MaxMsg)]

RPCRequests ==
    [variant : {"Hello"}, body : HelloMessages]
    \cup [variant : {"Goodbye"}, body : GoodbyeReasons]
    \cup [variant : {"BeaconBlocks"}, body : BeaconBlocksRequests]
    \cup [variant : {"RecentBeaconBlocks"}, body : RecentBeaconBlocksRequests]

RPCResponses ==
    [variant : {"Hello"}, body : HelloMessages]
    \cup [variant : {"BeaconBlocks", "RecentBeaconBlocks"},
          body : SeqsUpTo(PayloadBytes, MaxPayload)]

RPCErrorResponses ==
    [variant : {"Success"}, resp : RPCResponses]
    \cup [variant : {"InvalidRequest", "ServerError", "Unknown"}, err : ErrorMessages]

SSZFail == [ok |-> FALSE, val |-> [error_message |-> <<>>]]

HelloMessage_encode(m) == <<m.version, m.network_id>>
HelloMessage_decode(packet) ==
    IF Len(packet) = 2
    THEN [ok |-> TRUE, val |-> [version |-> packet[1], network_id |-> packet[2]]]
    ELSE SSZFail

GoodbyeReason_encode(m) == <<m.reason>>
GoodbyeReason_decode(packet) ==
    IF Len(packet) = 1 THEN [ok |-> TRUE, val |-> [reason |-> packet[1]]] ELSE SSZFail

BeaconBlocksRequest_encode(m) == <<m.start, m.count, m.step>>
BeaconBlocksRequest_decode(packet) ==
    IF Len(packet) = 3
    THEN [ok |-> TRUE, val |-> [start |-> packet[1], count |-> packet[2], step |-> packet[3]]]
    ELSE SSZFail

RecentBeaconBlocksRequest_encode(m) == <<Len(m.block_roots)>> \o m.block_roots
RecentBeaconBlocksRequest_decode(packet) ==
    IF Len(packet) >= 1 /\ packet[1] = Len(packet) - 1
    THEN [ok |-> TRUE, val |-> [block_roots |-> Drop(packet, 1)]]
    ELSE SSZFail

ErrorMessage_encode(m) == <<Len(m.error_message)>> \o m.error_message
ErrorMessage_decode(packet) ==
    IF Len(packet) >= 1 /\ packet[1] = Len(packet) - 1
    THEN [ok |-> TRUE, val |-> [error_message |-> Drop(packet, 1)]]
    ELSE SSZFail

-----------------------------------------------------------------------------
(* rpc::protocol: ProtocolId and RPCError *)

ProtocolId(name, version) == [message_name |-> name, version |-> version, encoding |-> "ssz"]

KnownProtocols ==
    {ProtocolId("hello", "1"), ProtocolId("goodbye", "1"),
     ProtocolId("beacon_blocks", "1"), ProtocolId("recent_beacon_blocks", "1")}

\* identities the negotiation is not supposed to agree on
UnknownProtocols ==
    {ProtocolId("hello", "2"), ProtocolId("goodbye", "2"), ProtocolId("status", "1")}

Protocols == KnownProtocols \cup UnknownProtocols

\* the encoding strings a ProtocolId may carry: the supported one, and another
Encodings == {"ssz", "ssz_snappy"}

\* the ProtocolId p with the encoding e
WithEncoding(p, e) == [p EXCEPT !.encoding = e]

\* results of a decode entry point: Result<Option<Item>, RPCError>, or a panic
OkSome(item) == [kind |-> "Some", val |-> item]
OkNone == [kind |-> "None", val |-> [tag |-> "None"]]
SSZDecodeError == [kind |-> "Err", val |-> [tag |-> "SSZDecodeError"]]
InvalidProtocol == [kind |-> "Err", val |-> [tag |-> "InvalidProtocol"]]
Unreachable == [kind |-> "Panic", val |-> [tag |-> "unreachable"]]

\* `T::decode(&packet)?` wrapped into the given variant
Parsed(variant, d) ==
    IF d.ok THEN OkSome([variant |-> variant, body |-> d.val]) ELSE SSZDecodeError

-----------------------------------------------------------------------------
(* SSZInboundCodec *)

\* the constructors without their debug_assert!
debug_assert_ssz_removed(debug, p) == TRUE

\* debug_assert!(protocol.encoding.as_str() == "ssz") passes: the assertion is compiled
\* out in a build without debug assertions, and panics on another encoding in a build
\* with them
debug_assert_ssz(debug, p) == ~debug \/ p.encoding = "ssz"

\* SSZInboundCodec::new
SSZInboundCodec_new(debug, p) ==
    IF debug_assert_ssz(debug, p)
    THEN [kind |-> "Codec", protocol |-> p]
    ELSE [kind |-> "Panic", protocol |-> p]

\* InboundItemBytes writing a tag byte for the error variant before the error message
InboundItemBytes_tagged(item) ==
    IF item.variant = "Success"
    THEN IF item.resp.variant = "Hello"
         THEN HelloMessage_encode(item.resp.body)
         ELSE item.resp.body
    ELSE <<IF item.variant = "InvalidRequest" THEN 1
           ELSE IF item.variant = "ServerError" THEN 2 ELSE 3>>
         \o ErrorMessage_encode(item.err)

\* InboundItemBytes serializing the payload of a list response again, as a byte list
InboundItemBytes_reencoded(item) ==
    IF item.variant = "Success"
    THEN IF item.resp.variant = "Hello"
         THEN HelloMessage_encode(item.resp.body)
         ELSE <<Len(item.resp.body)>> \o item.resp.body
    ELSE ErrorMessage_encode(item.err)

\* the bytes SSZInboundCodec::encode serializes an RPCErrorResponse to
InboundItemBytes(item) ==
    IF item.variant = "Success"
    THEN IF item.resp.variant = "Hello"
         THEN HelloMessage_encode(item.resp.body)
         ELSE item.resp.body          \* BeaconBlocks / RecentBeaconBlocks: already raw bytes
    ELSE ErrorMessage_encode(item.err)

\* SSZInboundCodec::encode without the `if !bytes.is_empty()` test
SSZInboundCodec_encode_always_framed(max, item, dst) ==
    UviBytes_encode(max, InboundItemBytes(item), dst)

\* Encoder for SSZInboundCodec: [ok, dst]
SSZInboundCodec_encode(max, item, dst) ==
    LET bytes == InboundItemBytes(item)
    IN  IF bytes # <<>>
        THEN UviBytes_encode(max, bytes, dst)
        ELSE [ok |-> TRUE, dst |-> dst]

\* InboundDispatch with the beacon_blocks arm parsing a RecentBeaconBlocksRequest
InboundDispatch_wrong_arm(p, packet) ==
    IF p.message_name = "hello"
    THEN IF p.version = "1" THEN Parsed("Hello", HelloMessage_decode(packet))
         ELSE Unreachable
    ELSE IF p.message_name = "goodbye"
    THEN IF p.version = "1" THEN Parsed("Goodbye", GoodbyeReason_decode(packet))
         ELSE Unreachable
    ELSE IF p.message_name = "beacon_blocks"
    THEN IF p.version = "1"
         THEN Parsed("RecentBeaconBlocks", RecentBeaconBlocksRequest_decode(packet))
         ELSE Unreachable
    ELSE IF p.message_name = "recent_beacon_blocks"
    THEN IF p.version = "1"
         THEN Parsed("RecentBeaconBlocks", RecentBeaconBlocksRequest_decode(packet))
         ELSE Unreachable
    ELSE Unreachable

\* InboundDispatch dropping a frame that does not parse: Ok(None) in place of the error
InboundDispatch_drops_unparsable(p, packet) ==
    LET orNone(r) == IF r.kind = "Err" THEN OkNone ELSE r
    IN  IF p.message_name = "hello"
        THEN IF p.version = "1" THEN orNone(Parsed("Hello", HelloMessage_decode(packet)))
             ELSE Unreachable
        ELSE IF p.message_name = "goodbye"
        THEN IF p.version = "1" THEN orNone(Parsed("Goodbye", GoodbyeReason_decode(packet)))
             ELSE Unreachable
        ELSE IF p.message_name = "beacon_blocks"
        THEN IF p.version = "1"
             THEN orNone(Parsed("BeaconBlocks", BeaconBlocksRequest_decode(packet)))
             ELSE Unreachable
        ELSE IF p.message_name = "recent_beacon_blocks"
        THEN IF p.version = "1"
             THEN orNone(Parsed("RecentBeaconBlocks", RecentBeaconBlocksRequest_decode(packet)))
             ELSE Unreachable
        ELSE Unreachable

\* InboundDispatch matching on the message name only, whatever the version
InboundDispatch_any_version(p, packet) ==
    IF p.message_name = "hello" THEN Parsed("Hello", HelloMessage_decode(packet))
    ELSE IF p.message_name = "goodbye" THEN Parsed("Goodbye", GoodbyeReason_decode(packet))
    ELSE IF p.message_name = "beacon_blocks"
    THEN Parsed("BeaconBlocks", BeaconBlocksRequest_decode(packet))
    ELSE IF p.message_name = "recent_beacon_blocks"
    THEN Parsed("RecentBeaconBlocks", RecentBeaconBlocksRequest_decode(packet))
    ELSE Unreachable

\* the match on protocol.message_name / protocol.version of SSZInboundCodec::decode
InboundDispatch(p, packet) ==
    IF p.message_name = "hello"
    THEN IF p.version = "1" THEN Parsed("Hello", HelloMessage_decode(packet))
         ELSE Unreachable
    ELSE IF p.message_name = "goodbye"
    THEN IF p.version = "1" THEN Parsed("Goodbye", GoodbyeReason_decode(packet))
         ELSE Unreachable
    ELSE IF p.message_name = "beacon_blocks"
    THEN IF p.version = "1" THEN Parsed("BeaconBlocks", BeaconBlocksRequest_decode(packet))
         ELSE Unreachable
    ELSE IF p.message_name = "recent_beacon_blocks"
    THEN IF p.version = "1"
         THEN Parsed("RecentBeaconBlocks", RecentBeaconBlocksRequest_decode(packet))
         ELSE Unreachable
    ELSE Unreachable

\* SSZInboundCodec::decode emptying its buffer once it has returned a frame
SSZInboundCodec_decode_clears(p, l, max, buf) ==
    LET f == UviBytes_decode(l, max, buf)
    IN  [result |-> IF f.res = "Some" THEN InboundDispatch(p, f.packet)
                    ELSE IF f.res = "None" THEN OkNone
                    ELSE FramingViolation,
         len    |-> f.len,
         src    |-> IF f.res = "Some" THEN <<>> ELSE f.src]

\* Decoder for SSZInboundCodec: [result, len, src]
SSZInboundCodec_decode(p, l, max, buf) ==
    LET f == UviBytes_decode(l, max, buf)
    IN  [result |-> IF f.res = "Some" THEN InboundDispatch(p, f.packet)
                    ELSE IF f.res = "None" THEN OkNone
                    ELSE FramingViolation,
         len    |-> f.len,
         src    |-> f.src]

-----------------------------------------------------------------------------
(* SSZOutboundCodec *)

\* SSZOutboundCodec::new: the same debug_assert! as SSZInboundCodec::new
SSZOutboundCodec_new(debug, p) ==
    IF debug_assert_ssz(debug, p)
    THEN [kind |-> "Codec", protocol |-> p]
    ELSE [kind |-> "Panic", protocol |-> p]

\* the bytes SSZOutboundCodec::encode serializes an RPCRequest to
OutboundItemBytes(item) ==
    IF item.variant = "Hello" THEN HelloMessage_encode(item.body)
    ELSE IF item.variant = "Goodbye" THEN GoodbyeReason_encode(item.body)
    ELSE IF item.variant = "BeaconBlocks" THEN BeaconBlocksRequest_encode(item.body)
    ELSE RecentBeaconBlocksRequest_encode(item.body)

\* SSZOutboundCodec::encode appending the serialization without its length prefix
SSZOutboundCodec_encode_unframed(max, item, dst) ==
    [ok |-> TRUE, dst |-> dst \o OutboundItemBytes(item)]

\* Encoder for SSZOutboundCodec: [ok, dst]
SSZOutboundCodec_encode(max, item, dst) ==
    UviBytes_encode(max, OutboundItemBytes(item), dst)

\* OutboundDispatch with a goodbye arm that parses the frame, as the inbound codec does
OutboundDispatch_goodbye_parsed(p, packet) ==
    IF p.message_name = "hello"
    THEN IF p.version = "1" THEN Parsed("Hello", HelloMessage_decode(packet))
         ELSE Unreachable
    ELSE IF p.message_name = "goodbye"
    THEN IF p.version = "1" THEN Parsed("Goodbye", GoodbyeReason_decode(packet))
         ELSE Unreachable
    ELSE IF p.message_name = "beacon_blocks"
    THEN IF p.version = "1" THEN OkSome([variant |-> "BeaconBlocks", body |-> packet])
         ELSE Unreachable
    ELSE IF p.message_name = "recent_beacon_blocks"
    THEN IF p.version = "1" THEN OkSome([variant |-> "RecentBeaconBlocks", body |-> packet])
         ELSE Unreachable
    ELSE Unreachable

\* the Ok(Some(packet)) arm of SSZOutboundCodec::decode
OutboundDispatch(p, packet) ==
    IF p.message_name = "hello"
    THEN IF p.version = "1" THEN Parsed("Hello", HelloMessage_decode(packet))
         ELSE Unreachable
    ELSE IF p.message_name = "goodbye" THEN InvalidProtocol
    ELSE IF p.message_name = "beacon_blocks"
    THEN IF p.version = "1" THEN OkSome([variant |-> "BeaconBlocks", body |-> packet])
         ELSE Unreachable
    ELSE IF p.message_name = "recent_beacon_blocks"
    THEN IF p.version = "1" THEN OkSome([variant |-> "RecentBeaconBlocks", body |-> packet])
         ELSE Unreachable
    ELSE Unreachable

\* OutboundEmpty answering as the inbound codec does: Ok(None) => Ok(None)
OutboundEmpty_none(p) ==
    IF p.message_name = "goodbye" THEN InvalidProtocol
    ELSE IF p \in KnownProtocols THEN OkNone
    ELSE Unreachable

\* the Ok(None) arm of SSZOutboundCodec::decode
OutboundEmpty(p) ==
    IF p.message_name = "hello"
    THEN IF p.version = "1" THEN OkNone ELSE Unreachable
    ELSE IF p.message_name = "goodbye" THEN InvalidProtocol
    ELSE IF p.message_name = "beacon_blocks"
    THEN IF p.version = "1" THEN OkSome([variant |-> "BeaconBlocks", body |-> <<>>])
         ELSE Unreachable
    ELSE IF p.message_name = "recent_beacon_blocks"
    THEN IF p.version = "1" THEN OkSome([variant |-> "RecentBeaconBlocks", body |-> <<>>])
         ELSE Unreachable
    ELSE Unreachable

\* Decoder for SSZOutboundCodec: [result, len, src]
SSZOutboundCodec_decode(p, l, max, buf) ==
    LET f == UviBytes_decode(l, max, buf)
    IN  [result |-> IF f.res = "Some" THEN OutboundDispatch(p, f.packet)
                    ELSE IF f.res = "None" THEN OutboundEmpty(p)
                    ELSE FramingViolation,
         len    |-> f.len,
         src    |-> f.src]

\* decode_error with the framer's error swallowed: Err(_) => Ok(None)
SSZOutboundCodec_decode_error_swallow(p, l, max, buf) ==
    LET f == UviBytes_decode(l, max, buf)
        d == ErrorMessage_decode(f.packet)
    IN  [result |-> IF f.res = "Some"
                    THEN (IF d.ok THEN OkSome(d.val) ELSE SSZDecodeError)
                    ELSE OkNone,
         len    |-> f.len,
         src    |-> f.src]

\* decode_error answering an unparsable payload with an empty error message
SSZOutboundCodec_decode_error_lenient(p, l, max, buf) ==
    LET f == UviBytes_decode(l, max, buf)
        d == ErrorMessage_decode(f.packet)
    IN  [result |-> IF f.res = "Some" THEN OkSome(d.val)
                    ELSE IF f.res = "None" THEN OkNone
                    ELSE FramingViolation,
         len    |-> f.len,
         src    |-> f.src]

\* OutboundCodec::decode_error for SSZOutboundCodec: [result, len, src]
SSZOutboundCodec_decode_error(p, l, max, buf) ==
    LET f == UviBytes_decode(l, max, buf)
        d == ErrorMessage_decode(f.packet)
    IN  [result |-> IF f.res = "Some"
                    THEN (IF d.ok THEN OkSome(d.val) ELSE SSZDecodeError)
                    ELSE IF f.res = "None" THEN OkNone
                    ELSE FramingViolation,
         len    |-> f.len,
         src    |-> f.src]

-----------------------------------------------------------------------------
(* One substream: an encoding codec, the byte stream, a decoding codec *)

NoCall == [entry |-> "none", len0 |-> NoLen, buf0 |-> <<>>,
           result |-> [kind |-> "Init", val |-> [tag |-> "Init"]]]

RawItem == [variant |-> "Raw"]

\* the codecs of a substream after their construction; no entry point reads the build,
\* which matters to the constructors only (ConstructInit)
CodecInit ==
    /\ debug_assertions = TRUE
    /\ built = "built"
    /\ protocol \in Protocols
    /\ enc_max \in PacketSizes
    /\ dec_max \in PacketSizes
    /\ dir \in {"request", "response"}
    /\ wire = <<>>
    /\ src = <<>>
    /\ len = NoLen
    /\ sent = <<>>
    /\ last = NoCall
    /\ got = <<>>
    /\ closed = FALSE
    /\ dead = FALSE

\* the substream has been negotiated: the inbound codec is constructed at the responder
\* and the outbound codec at the requester, both from the negotiated ProtocolId
New ==
    /\ built = "new"
    /\ built' = IF SSZInboundCodec_new(debug_assertions, protocol).kind = "Codec"
                    /\ SSZOutboundCodec_new(debug_assertions, protocol).kind = "Codec"
                 THEN "built" ELSE "panicked"
    /\ UNCHANGED <<debug_assertions, protocol, enc_max, dec_max, dir, wire, src, len, sent,
                   last, got, closed, dead, serviceVars, blockVars>>

\* the encoder's side wrote: e is the [ok, dst] of the encode call on dst = wire
Wrote(item, e) ==
    /\ wire' = e.dst
    /\ sent' = Append(sent, [item |-> item, ok |-> e.ok, bytes |-> Drop(e.dst, Len(wire))])
    /\ UNCHANGED <<debug_assertions, built, protocol, enc_max, dec_max, dir, src, len, last, got, closed, dead, serviceVars, blockVars>>

\* a substream carries one request, or one response: the encoder is called once
CanEncode ==
    /\ built = "built"
    /\ ~closed
    /\ sent = <<>>

\* the requester sends a request: SSZOutboundCodec::encode(item, dst)
EncodeRequest(item) ==
    /\ dir = "request"
    /\ CanEncode
    /\ Wrote(item, SSZOutboundCodec_encode(enc_max, item, wire))

\* the responder sends a response or an error: SSZInboundCodec::encode(item, dst)
EncodeResponse(item) ==
    /\ dir = "response"
    /\ CanEncode
    /\ Wrote(item, SSZInboundCodec_encode(enc_max, item, wire))

\* a remote that does not run this codec writes arbitrary bytes
RawWrite(bytes) ==
    /\ ~closed
    /\ sent = <<>>
    /\ Wrote(RawItem, [ok |-> TRUE, dst |-> wire \o bytes])

\* the remote closes the stream
Close ==
    /\ ~closed
    /\ closed' = TRUE
    /\ UNCHANGED <<debug_assertions, built, protocol, enc_max, dec_max, dir, wire, src, len, sent, last, got, dead, serviceVars, blockVars>>

\* k more bytes are read into src, then the entry point is called and answers r
Called(entry, k, r) ==
    /\ wire' = Drop(wire, k)
    /\ src' = r.src
    /\ len' = r.len
    /\ last' = [entry |-> entry, len0 |-> len, buf0 |-> src \o Take(wire, k),
                result |-> r.result]
    /\ got' = IF r.result.kind = "Some" THEN Append(got, r.result.val) ELSE got
    /\ dead' = (r.result.kind = "Panic")
    /\ UNCHANGED <<debug_assertions, built, protocol, enc_max, dec_max, dir, sent, closed, serviceVars, blockVars>>

CanDecode == built = "built" /\ ~dead /\ Len(got) < MaxGot

\* the responder reads k bytes and calls SSZInboundCodec::decode(src)
InboundDecode(k) ==
    /\ dir = "request"
    /\ CanDecode
    /\ Called("decode", k, SSZInboundCodec_decode(protocol, len, dec_max, src \o Take(wire, k)))

\* the requester reads k bytes and calls SSZOutboundCodec::decode(src)
OutboundDecode(k) ==
    /\ dir = "response"
    /\ CanDecode
    /\ Called("decode", k, SSZOutboundCodec_decode(protocol, len, dec_max, src \o Take(wire, k)))

\* the requester reads k bytes and calls SSZOutboundCodec::decode_error(src)
OutboundDecodeError(k) ==
    /\ dir = "response"
    /\ CanDecode
    /\ Called("decode_error", k,
              SSZOutboundCodec_decode_error(protocol, len, dec_max, src \o Take(wire, k)))

CodecNext ==
    \/ \E item \in RPCRequests : EncodeRequest(item)
    \/ \E item \in RPCErrorResponses : EncodeResponse(item)
    \/ \E bytes \in SeqsUpTo(RawBytes, MaxRaw) \ {<<>>} : RawWrite(bytes)
    \/ Close
    \/ \E k \in 0..Len(wire) : InboundDecode(k)
    \/ \E k \in 0..Len(wire) : OutboundDecode(k)
    \/ \E k \in 0..Len(wire) : OutboundDecodeError(k)

\* the Request / Response variant of a known identity
VariantOf(p) ==
    IF p.message_name = "hello" THEN "Hello"
    ELSE IF p.message_name = "goodbye" THEN "Goodbye"
    ELSE IF p.message_name = "beacon_blocks" THEN "BeaconBlocks"
    ELSE "RecentBeaconBlocks"

\* a requester that keeps the substream open writes one more request of the
\* substream's identity behind the earlier ones: SSZOutboundCodec::encode(item, dst)
EncodeNext(item) ==
    /\ built = "built"
    /\ dir = "request"
    /\ ~closed
    /\ Len(sent) < MaxFrames
    /\ item.variant = VariantOf(protocol)
    /\ Wrote(item, SSZOutboundCodec_encode(enc_max, item, wire))

\* a substream on which the requester writes its requests back to back
FramesInit ==
    /\ debug_assertions \in BOOLEAN
    /\ built = "built"
    /\ protocol \in {ProtocolId("goodbye", "1"), ProtocolId("recent_beacon_blocks", "1")}
    /\ enc_max = 4
    /\ dec_max = 4
    /\ dir = "request"
    /\ wire = <<>>
    /\ src = <<>>
    /\ len = NoLen
    /\ sent = <<>>
    /\ last = NoCall
    /\ got = <<>>
    /\ closed = FALSE
    /\ dead = FALSE

FramesNext ==
    \/ \E item \in RPCRequests : EncodeNext(item)
    \/ \E k \in 0..Len(wire) : InboundDecode(k)

\* a negotiated substream whose codecs are still to be constructed
ConstructInit ==
    /\ debug_assertions \in BOOLEAN
    /\ built = "new"
    /\ protocol \in {WithEncoding(q, e) :
                        q \in {ProtocolId("hello", "1"), ProtocolId("beacon_blocks", "1")},
                        e \in Encodings}
    /\ enc_max = 4
    /\ dec_max = 4
    /\ dir \in {"request", "response"}
    /\ wire = <<>>
    /\ src = <<>>
    /\ len = NoLen
    /\ sent = <<>>
    /\ last = NoCall
    /\ got = <<>>
    /\ closed = FALSE
    /\ dead = FALSE

ConstructNext ==
    \/ New
    \/ CodecNext

-----------------------------------------------------------------------------
(* config.rs: gossip topics. A topic string "/a/b/c" is the sequence of its segments. *)

TOPIC_PREFIX == "eth2"
TOPIC_ENCODING_POSTFIX == "ssz"
BEACON_BLOCK_TOPIC == "beacon_block"
BEACON_ATTESTATION_TOPIC == "beacon_attestation"
VOLUNTARY_EXIT_TOPIC == "voluntary_exit"
PROPOSER_SLASHING_TOPIC == "proposer_slashing"
ATTESTER_SLASHING_TOPIC == "attester_slashing"

\* the closure topic_builder of Service::new
topic_builder(topic) == <<TOPIC_PREFIX, topic, TOPIC_ENCODING_POSTFIX>>

\* the topics vector of Service::new: the five core topics, then the configured ones
Topics(cfg) ==
    << topic_builder(BEACON_BLOCK_TOPIC),
       topic_builder(BEACON_ATTESTATION_TOPIC),
       topic_builder(VOLUNTARY_EXIT_TOPIC),
       topic_builder(PROPOSER_SLASHING_TOPIC),
       topic_builder(ATTESTER_SLASHING_TOPIC) >> \o cfg.topics

-----------------------------------------------------------------------------
(* Service::new *)

Addrs == {"addr1", "addr2"}
\* extra topic strings an operator may configure; the second repeats a core topic
ExtraTopics == {<<"shard0">>, topic_builder(BEACON_BLOCK_TOPIC)}

NetworkConfigs ==
    [libp2p_nodes : SeqsUpTo(Addrs, MaxNodes), topics : SeqsUpTo(ExtraTopics, MaxExtra)]

NoPoll == [result |-> "none", event |-> [type |-> "none"], swarm |-> "none",
           swarm_polls |-> 0, left |-> 0]

\* the swarm before Service::new has been called
ServiceInit ==
    /\ pc = "Behaviour"
    /\ config \in NetworkConfigs
    /\ listening = FALSE
    /\ dials = <<>>
    /\ subs = <<>>
    /\ ready = <<>>
    /\ ended = FALSE
    /\ produced = <<>>
    /\ emitted = <<>>
    /\ polled = NoPoll

\* where Service::new goes after listen_on, and after each dial_addr
AfterDials(cfg, done) == IF done = Len(cfg.libp2p_nodes) THEN "Subscribe" ELSE "Dial"

\* where Service::new goes after each subscribe: Ok(Service) after the last topic
AfterSubscribes(cfg, done) == IF done = Len(Topics(cfg)) THEN "Running" ELSE "Subscribe"

\* Behaviour::new(&local_private_key, &config)?
BehaviourNew(ok) ==
    /\ pc = "Behaviour"
    /\ pc' = IF ok THEN "Listen" ELSE "BehaviourFailed"
    /\ UNCHANGED <<config, listening, dials, subs, ready, ended, produced, emitted, polled, codecVars, blockVars>>

\* listen_on whose Err arm warns and goes on instead of returning
ListenOn_no_return(ok) ==
    /\ pc = "Listen"
    /\ listening' = ok
    /\ pc' = AfterDials(config, 0)
    /\ UNCHANGED <<config, dials, subs, ready, ended, produced, emitted, polled, codecVars, blockVars>>

\* match Swarm::listen_on(&mut swarm, listen_multiaddr.clone())
ListenOn(ok) ==
    /\ pc = "Listen"
    /\ listening' = ok
    /\ pc' = IF ok THEN AfterDials(config, 0) ELSE "ListenFailed"
    /\ UNCHANGED <<config, dials, subs, ready, ended, produced, emitted, polled, codecVars, blockVars>>

\* the dial loop leaving at the first failed dial (`break` in the Err arm)
DialAddr_break(ok) ==
    /\ pc = "Dial"
    /\ dials' = Append(dials, [addr |-> config.libp2p_nodes[Len(dials) + 1], ok |-> ok])
    /\ pc' = IF ok THEN AfterDials(config, Len(dials) + 1) ELSE "Subscribe"
    /\ UNCHANGED <<config, listening, subs, ready, ended, produced, emitted, polled, codecVars, blockVars>>

\* one iteration of `for multiaddr in config.libp2p_nodes`: Swarm::dial_addr
DialAddr(ok) ==
    /\ pc = "Dial"
    /\ dials' = Append(dials, [addr |-> config.libp2p_nodes[Len(dials) + 1], ok |-> ok])
    /\ pc' = AfterDials(config, Len(dials) + 1)
    /\ UNCHANGED <<config, listening, subs, ready, ended, produced, emitted, polled, codecVars, blockVars>>

\* the topics swarm.subscribe has returned true for (subscribed_topics)
Subscribed(ss) == {ss[i].topic : i \in {j \in 1..Len(ss) : ss[j].ok}}

\* the subscription loop returning Ok(Service) at the first refused topic
Subscribe_stop(ok) ==
    /\ pc = "Subscribe"
    /\ LET topic == Topics(config)[Len(subs) + 1]
       IN  /\ ok => topic \notin Subscribed(subs)
           /\ subs' = Append(subs, [topic |-> topic, ok |-> ok])
    /\ pc' = IF ok THEN AfterSubscribes(config, Len(subs) + 1) ELSE "Running"
    /\ UNCHANGED <<config, listening, dials, ready, ended, produced, emitted, polled, codecVars, blockVars>>

\* one iteration of `for topic in topics`: swarm.subscribe(topic.clone());
\* gossipsub answers false for a topic it is already subscribed to
Subscribe(ok) ==
    /\ pc = "Subscribe"
    /\ LET topic == Topics(config)[Len(subs) + 1]
       IN  /\ ok => topic \notin Subscribed(subs)
           /\ subs' = Append(subs, [topic |-> topic, ok |-> ok])
    /\ pc' = AfterSubscribes(config, Len(subs) + 1)
    /\ UNCHANGED <<config, listening, dials, ready, ended, produced, emitted, polled, codecVars, blockVars>>

ServiceNewNext ==
    \/ \E ok \in BOOLEAN : BehaviourNew(ok)
    \/ \E ok \in BOOLEAN : ListenOn(ok)
    \/ \E ok \in BOOLEAN : DialAddr(ok)
    \/ \E ok \in BOOLEAN : Subscribe(ok)

-----------------------------------------------------------------------------
(* impl Stream for Service *)

Peers == {"peerA", "peerB"}

\* behaviour::BehaviourEvent
BehaviourEvents ==
    [type : {"GossipMessage"}, source : Peers, topics : {<<"topic_hash">>}, message : {"block"}]
    \cup [type : {"RPC"}, peer_id : Peers, event : {"rpc_event"}]
    \cup [type : {"PeerDialed", "PeerDisconnected"}, peer_id : Peers]

NoEvent == [type |-> "none"]

\* the Libp2pEvent that Service::poll builds from a BehaviourEvent
Libp2pEvent(event) ==
    IF event.type = "GossipMessage"
    THEN [type |-> "PubsubMessage", source |-> event.source, topics |-> event.topics,
          message |-> event.message]
    ELSE IF event.type = "RPC"
    THEN [type |-> "RPC", peer_id |-> event.peer_id, event |-> event.event]
    ELSE IF event.type = "PeerDialed"
    THEN [type |-> "PeerDialed", peer_id |-> event.peer_id]
    ELSE [type |-> "PeerDisconnected", peer_id |-> event.peer_id]

\* what self.swarm.poll() may answer: Ok(Ready(Some(event))) with the oldest ready event,
\* Ok(NotReady), Ok(Ready(None)) once the stream has ended, or Err(_)
SwarmPoll(rdy, end) ==
    (IF rdy # <<>> THEN {"event"} ELSE IF end THEN {"end"} ELSE {"not_ready"})
    \cup {"error"}

RECURSIVE LastOf(_)
LastOf(q) == IF Len(q) = 1 THEN Head(q) ELSE LastOf(Tail(q))

\* Service::poll looping over every ready event and returning the last one
Service_poll_drain(rdy, answer) ==
    IF answer = "event"
    THEN [result |-> "Ready", event |-> Libp2pEvent(LastOf(rdy)), swarm |-> answer,
          swarm_polls |-> Len(rdy), ready |-> <<>>]
    ELSE IF answer = "end"
    THEN [result |-> "Panic", event |-> NoEvent, swarm |-> answer,
          swarm_polls |-> 1, ready |-> rdy]
    ELSE [result |-> "NotReady", event |-> NoEvent, swarm |-> answer,
          swarm_polls |-> 1, ready |-> rdy]

\* Service::poll with `Ok(Async::NotReady) => continue`: it polls the swarm again
Service_poll_spin(rdy, answer) ==
    IF answer = "event"
    THEN [result |-> "Ready", event |-> Libp2pEvent(Head(rdy)), swarm |-> answer,
          swarm_polls |-> 1, ready |-> Tail(rdy)]
    ELSE IF answer = "end"
    THEN [result |-> "Panic", event |-> NoEvent, swarm |-> answer,
          swarm_polls |-> 1, ready |-> rdy]
    ELSE [result |-> "NotReady", event |-> NoEvent, swarm |-> answer,
          swarm_polls |-> IF answer = "not_ready" THEN 2 ELSE 1, ready |-> rdy]

\* Service::poll passing the end of the swarm's stream on: Ok(Async::Ready(None))
Service_poll_end(rdy, answer) ==
    IF answer = "event"
    THEN [result |-> "Ready", event |-> Libp2pEvent(Head(rdy)), swarm |-> answer,
          swarm_polls |-> 1, ready |-> Tail(rdy)]
    ELSE IF answer = "end"
    THEN [result |-> "End", event |-> NoEvent, swarm |-> answer,
          swarm_polls |-> 1, ready |-> rdy]
    ELSE [result |-> "NotReady", event |-> NoEvent, swarm |-> answer,
          swarm_polls |-> 1, ready |-> rdy]

\* Service::poll returning the swarm's error to its caller: Err(e) => return Err(e.into())
Service_poll_propagates(rdy, answer) ==
    IF answer = "event"
    THEN [result |-> "Ready", event |-> Libp2pEvent(Head(rdy)), swarm |-> answer,
          swarm_polls |-> 1, ready |-> Tail(rdy)]
    ELSE IF answer = "end"
    THEN [result |-> "Panic", event |-> NoEvent, swarm |-> answer,
          swarm_polls |-> 1, ready |-> rdy]
    ELSE IF answer = "error"
    THEN [result |-> "Err", event |-> NoEvent, swarm |-> answer,
          swarm_polls |-> 1, ready |-> rdy]
    ELSE [result |-> "NotReady", event |-> NoEvent, swarm |-> answer,
          swarm_polls |-> 1, ready |-> rdy]

\* Service::poll, given the answer of self.swarm.poll(): every arm of the match
\* leaves the loop in its first iteration
Service_poll(rdy, answer) ==
    IF answer = "event"
    THEN [result |-> "Ready", event |-> Libp2pEvent(Head(rdy)), swarm |-> answer,
          swarm_polls |-> 1, ready |-> Tail(rdy)]
    ELSE IF answer = "end"
    THEN [result |-> "Panic", event |-> NoEvent, swarm |-> answer,
          swarm_polls |-> 1, ready |-> rdy]
    ELSE [result |-> "NotReady", event |-> NoEvent, swarm |-> answer,
          swarm_polls |-> 1, ready |-> rdy]

\* a Service that Service::new has returned: no static peer, no extra topic,
\* every core subscription accepted
RunningInit ==
    /\ pc = "Running"
    /\ config = [libp2p_nodes |-> <<>>, topics |-> <<>>]
    /\ listening = TRUE
    /\ dials = <<>>
    /\ subs = [i \in 1..5 |-> [topic |-> Topics(config)[i], ok |-> TRUE]]
    /\ ready = <<>>
    /\ ended = FALSE
    /\ produced = <<>>
    /\ emitted = <<>>
    /\ polled = NoPoll

\* the swarm makes one more event ready
SwarmReady(event) ==
    /\ pc = "Running"
    /\ ~ended
    /\ Len(produced) < MaxEvents
    /\ ready' = Append(ready, event)
    /\ produced' = Append(produced, event)
    /\ UNCHANGED <<pc, config, listening, dials, subs, ended, emitted, polled, codecVars, blockVars>>

\* the swarm's event stream ends
SwarmEnd ==
    /\ pc = "Running"
    /\ ~ended
    /\ ended' = TRUE
    /\ UNCHANGED <<pc, config, listening, dials, subs, ready, produced, emitted, polled, codecVars, blockVars>>

\* one call of Service::poll
Poll(answer) ==
    /\ pc = "Running"
    /\ polled.result # "Panic"
    /\ answer \in SwarmPoll(ready, ended)
    /\ LET r == Service_poll(ready, answer)
       IN  /\ ready' = r.ready
           /\ emitted' = IF r.result = "Ready" THEN Append(emitted, r.event) ELSE emitted
           /\ polled' = [result |-> r.result, event |-> r.event, swarm |-> r.swarm,
                         swarm_polls |-> r.swarm_polls, left |-> Len(r.ready)]
    /\ UNCHANGED <<pc, config, listening, dials, subs, ended, produced, codecVars, blockVars>>

ServicePollNext ==
    \/ \E event \in BehaviourEvents : SwarmReady(event)
    \/ SwarmEnd
    \/ \E answer \in {"event", "not_ready", "end", "error"} : Poll(answer)

-----------------------------------------------------------------------------
(* blockchain/src/lib.rs: Block and its identifiers *)

\* beacon::H256, and H256::default(), the all-zero hash
H256 == [1..HashLen -> HashBytes]
H256_default == [i \in 1..HashLen |-> 0]

\* Block(BeaconBlock): the slot and the previous_block_root of the BeaconBlock
Blocks == [slot : 0..MaxSlot, previous_block_root : H256]

\* Option<H256>
NoParent == [kind |-> "None", val |-> <<>>]
SomeId(h) == [kind |-> "Some", val |-> h]
NotAsked == [kind |-> "NotAsked", val |-> <<>>]

\* parent_id without the test for the default hash
Block_parent_id_always_some(b) == SomeId(b.previous_block_root)

\* impl BlockT for Block: parent_id
Block_parent_id(b) ==
    IF b.previous_block_root = H256_default
    THEN NoParent
    ELSE SomeId(b.previous_block_root)

\* any block, parent_id not called on it yet
BlockInit ==
    /\ block \in Blocks
    /\ parent = NotAsked

\* parent_id is called on the block
ParentId ==
    /\ parent' = Block_parent_id(block)
    /\ UNCHANGED <<block, codecVars, serviceVars>>

\* the caller turns to another block
NextBlock(b) ==
    /\ parent # NotAsked
    /\ b # block
    /\ block' = b
    /\ parent' = NotAsked
    /\ UNCHANGED <<codecVars, serviceVars>>

BlockNext ==
    \/ ParentId
    \/ \E b \in Blocks : NextBlock(b)

-----------------------------------------------------------------------------
(* Specifications *)

\* no block looked at
BlockIdle ==
    /\ block = [slot |-> 0, previous_block_root |-> H256_default]
    /\ parent = NotAsked

\* a substream before anything has been written to it
CodecIdle ==
    /\ debug_assertions = TRUE
    /\ built = "built"
    /\ protocol = ProtocolId("hello", "1")
    /\ enc_max = 4
    /\ dec_max = 4
    /\ dir = "request"
    /\ wire = <<>>
    /\ src = <<>>
    /\ len = NoLen
    /\ sent = <<>>
    /\ last = NoCall
    /\ got = <<>>
    /\ closed = FALSE
    /\ dead = FALSE

\* a Service that has not been constructed
ServiceIdle ==
    /\ pc = "Behaviour"
    /\ config = [libp2p_nodes |-> <<>>, topics |-> <<>>]
    /\ listening = FALSE
    /\ dials = <<>>
    /\ subs = <<>>
    /\ ready = <<>>
    /\ ended = FALSE
    /\ produced = <<>>
    /\ emitted = <<>>
    /\ polled = NoPoll

\* the codecs of one substream, between two peers
CodecSpecInit == CodecInit /\ ServiceIdle /\ BlockIdle
SpecCodec == CodecSpecInit /\ [][CodecNext]_vars

\* the codecs of one substream, from their construction on
ConstructSpecInit == ConstructInit /\ ServiceIdle /\ BlockIdle
SpecConstruct == ConstructSpecInit /\ [][ConstructNext]_vars

\* the frames of one substream, written back to back
FramesSpecInit == FramesInit /\ ServiceIdle /\ BlockIdle
SpecFrames == FramesSpecInit /\ [][FramesNext]_vars

\* Block::parent_id on the blocks of a chain
BlockSpecInit == BlockInit /\ CodecIdle /\ ServiceIdle
SpecBlock == BlockSpecInit /\ [][BlockNext]_vars

\* Service::new, call by call
NewSpecInit == ServiceInit /\ CodecIdle /\ BlockIdle
SpecNew == NewSpecInit /\ [][ServiceNewNext]_vars

\* Service::poll on a running Service
PollSpecInit == RunningInit /\ CodecIdle /\ BlockIdle
SpecPoll == PollSpecInit /\ [][ServicePollNext]_vars

-----------------------------------------------------------------------------
(* Properties *)

\* exactly one request, of the variant of the substream's known identity, has been
\* encoded by the outbound codec, and nothing else was written
OneRequest ==
    /\ dir = "request"
    /\ protocol \in KnownProtocols
    /\ Len(sent) = 1
    /\ sent[1].item \in RPCRequests
    /\ sent[1].item.variant = VariantOf(protocol)

\* what C1 says of the decode calls on the bytes of the one request sent
RoundTrip ==
    /\ last.entry = "decode" /\ wire # <<>> => last.result = OkNone /\ got = <<>>
    /\ last.entry = "decode" /\ wire = <<>> =>
           /\ got = <<sent[1].item>>
           /\ src = <<>>
           /\ last.result \in {OkSome(sent[1].item), OkNone}

\* C1 as stated: every request of the matching variant, encoded by the outbound codec
\* and fed in any chunks to the inbound codec of the same identity, is answered by
\* "no result yet" until the last byte has arrived and then by the request itself,
\* leaving the buffer empty.
C1_AsStated == OneRequest /\ sent[1].ok => RoundTrip

\* the serialization of the request is within the decoding codec's maximum frame length
FitsDecoder(item) == Len(OutboundItemBytes(item)) <= dec_max

\* C1 amended: the round trip holds for every request that encode has written and
\* whose serialization is not longer than the maximum frame length (max_packet_size)
\* of the decoding codec.
C1_RoundTrip == OneRequest /\ sent[1].ok /\ FitsDecoder(sent[1].item) => RoundTrip

\* C1 witness: a request has arrived in more than one chunk and has been decoded
C1_Witness ==
    /\ OneRequest /\ sent[1].ok /\ FitsDecoder(sent[1].item)
    /\ sent[1].item.variant = "RecentBeaconBlocks"
    /\ Len(sent[1].item.body.block_roots) = 2
    /\ last.len0 # NoLen
    /\ last.result = OkSome(sent[1].item)
    /\ wire = <<>> /\ src = <<>>

\* nothing has reached the wire: no encode call or raw write has appended a byte
NothingWritten == \A i \in 1..Len(sent) : sent[i].bytes = <<>>

\* C2: on an outbound codec, when the stream has closed with zero frames received,
\* decode yields Response::BeaconBlocks / RecentBeaconBlocks with an empty payload on
\* beacon_blocks/1 / recent_beacon_blocks/1 (never an error), and "no result" on hello/1.
C2_EmptyOnClose ==
    dir = "response" /\ closed /\ NothingWritten /\ last.entry = "decode" =>
        /\ protocol = ProtocolId("beacon_blocks", "1") =>
               last.result = OkSome([variant |-> "BeaconBlocks", body |-> <<>>])
        /\ protocol = ProtocolId("recent_beacon_blocks", "1") =>
               last.result = OkSome([variant |-> "RecentBeaconBlocks", body |-> <<>>])
        /\ protocol = ProtocolId("hello", "1") => last.result = OkNone

\* C2 witness: beacon_blocks/1, the stream closed with nothing sent, decode was called
C2_Witness ==
    /\ dir = "response" /\ closed /\ sent = <<>>
    /\ protocol = ProtocolId("beacon_blocks", "1")
    /\ last.entry = "decode"
    /\ last.result.kind = "Some"

\* the frame length a call found declared: the pending length of the framer, or the
\* length prefix at the head of its buffer; NoLen when the prefix is incomplete
Declared(call) ==
    IF call.len0 # NoLen THEN call.len0
    ELSE LET d == decode_usize(call.buf0)
         IN  IF d.kind = "Ok" THEN d.n ELSE NoLen

GoodbyeOutbound == dir = "response" /\ protocol = ProtocolId("goodbye", "1")

\* C3 as stated: on an outbound codec of the goodbye identity every call of decode and
\* every call of decode_error fails with InvalidProtocol, whatever is buffered.
C3_AsStated == GoodbyeOutbound /\ last.entry # "none" => last.result = InvalidProtocol

\* C3 amended: on the goodbye identity every call of decode fails, with InvalidProtocol
\* unless the declared frame length exceeds the maximum, which fails with the framing
\* error; decode_error never answers InvalidProtocol: it does not look at the identity
\* and answers "no result" on an incomplete frame, the parsed message (or a parse
\* error) on a complete one and the framing error on an oversized one.
C3_Goodbye ==
    GoodbyeOutbound =>
        /\ last.entry = "decode" =>
               last.result = IF Declared(last) > dec_max THEN FramingViolation
                             ELSE InvalidProtocol
        /\ last.entry = "decode_error" =>
               /\ last.result # InvalidProtocol
               /\ Declared(last) > dec_max => last.result = FramingViolation
               /\ Declared(last) = NoLen \/ Len(last.buf0) = 0 => last.result = OkNone
               /\ last.result.kind \in {"Some", "Err"} \/ last.result = OkNone

\* C3 witness: decode on the goodbye identity has been called on a complete frame
C3_Witness ==
    /\ GoodbyeOutbound
    /\ last.entry = "decode"
    /\ last.buf0 = <<1, 0>>
    /\ dec_max = 4
    /\ last.result = InvalidProtocol

\* C4: at every decode entry point (inbound decode, outbound decode, decode_error) a
\* declared frame length above the maximum makes the call fail with the framing error;
\* the codec never waits for such a frame and never returns a frame longer than the
\* maximum.
C4_Oversize ==
    /\ last.entry # "none" /\ Declared(last) > dec_max =>
           /\ last.result = FramingViolation
           /\ len = NoLen
           /\ Len(src) <= Len(last.buf0)
    /\ len # NoLen => len <= dec_max
    /\ last.result.kind = "Some" =>
           /\ Declared(last) <= dec_max
           /\ last.entry = "decode" /\ dir = "response" /\ last.result.val.variant # "Hello" =>
                  Len(last.result.val.body) <= dec_max

\* C4 witness: a frame declaring more than the maximum has reached an entry point
C4_Witness ==
    /\ last.entry = "decode_error"
    /\ Declared(last) > dec_max
    /\ dec_max = 4
    /\ last.result = FramingViolation

\* the encode calls of the inbound codec
InboundSent == {i \in 1..Len(sent) : dir = "response" /\ sent[i].item \in RPCErrorResponses}

-----------------------------------------------------------------------------
(* Properties of the Service *)

\* the Libp2pEvent l is the BehaviourEvent b: the corresponding variant, the same payload
SameEvent(b, l) ==
    \/ /\ b.type = "GossipMessage" /\ l.type = "PubsubMessage"
       /\ l.source = b.source /\ l.topics = b.topics /\ l.message = b.message
    \/ /\ b.type = "RPC" /\ l.type = "RPC"
       /\ l.peer_id = b.peer_id /\ l.event = b.event
    \/ /\ b.type \in {"PeerDialed", "PeerDisconnected"} /\ l.type = b.type
       /\ l.peer_id = b.peer_id

\* the events emitted so far are the first events the swarm made ready, in order, and
\* the others are still ready, in order
InOrder ==
    /\ Len(emitted) + Len(ready) = Len(produced)
    /\ \A i \in 1..Len(emitted) : SameEvent(produced[i], emitted[i])
    /\ \A j \in 1..Len(ready) : ready[j] = produced[Len(emitted) + j]

\* C6 as stated: one poll call consumes every event the swarm has ready, and every
\* consumed event is re-emitted once, unaltered, in the order the swarm yielded it.
C6_AsStated ==
    /\ polled.result \in {"Ready", "NotReady"} /\ polled.swarm # "error" => polled.left = 0
    /\ InOrder

\* C6 amended: one poll call consumes at most one event, the oldest the swarm has
\* ready, and returns it as the one PeerEvent of the corresponding variant with the same
\* payload; the other ready events stay with the swarm for later polls. After any
\* sequence of polls no swarm event has been dropped, duplicated, altered or reordered.
C6_Funnel ==
    /\ InOrder
    /\ polled.result = "Ready" =>
           /\ polled.swarm_polls = 1
           /\ emitted # <<>>
           /\ polled.event = emitted[Len(emitted)]
    /\ polled.result \in {"NotReady", "Panic"} => polled.event = NoEvent

\* C6 witness: a poll has returned a gossip message while another event was ready
C6_Witness ==
    /\ polled.result = "Ready"
    /\ polled.event.type = "PubsubMessage"
    /\ polled.left >= 1
    /\ Len(emitted) = 2

\* C7: when the swarm has no event ready, Service::poll returns "not ready" after one
\* poll of the swarm, without emitting an event.
C7_NotReady ==
    polled.swarm = "not_ready" =>
        /\ polled.result = "NotReady"
        /\ polled.event = NoEvent
        /\ polled.swarm_polls = 1
        /\ polled.left = 0
        /\ Len(emitted) + Len(ready) = Len(produced)

\* C7 witness: after an event was emitted, a poll found nothing ready
C7_Witness ==
    /\ polled.swarm = "not_ready"
    /\ polled.result = "NotReady"
    /\ Len(emitted) = 1
    /\ ready = <<>>

\* C8: if the listen address cannot be bound, Service::new returns an error: no Service
\* is produced and no dial and no subscription is attempted afterwards; a Service is
\* returned only after listening has succeeded.
C8_ListenFatal ==
    /\ pc = "ListenFailed" =>
           /\ ~listening /\ dials = <<>> /\ subs = <<>>
           /\ ~ENABLED ServiceNewNext
    /\ pc = "Running" => listening
    /\ dials # <<>> \/ subs # <<>> => listening

\* C8 witness: listening failed although static peers and an extra topic are configured
C8_Witness ==
    /\ pc = "ListenFailed"
    /\ Len(config.libp2p_nodes) = 2
    /\ Len(config.topics) = 1

\* the addresses dialed so far
Dialed == [i \in 1..Len(dials) |-> dials[i].addr]

\* C9: once listening has succeeded, Service::new dials every configured peer address
\* once, in configuration order, whatever the earlier dials answered, and returns the
\* Service; a failed dial does not abort startup.
C9_Dials ==
    listening =>
        /\ pc \in {"Dial", "Subscribe", "Running"}
        /\ pc = "Dial" =>
               /\ Len(dials) < Len(config.libp2p_nodes)
               /\ Dialed = Take(config.libp2p_nodes, Len(dials))
               /\ ENABLED DialAddr(TRUE) /\ ENABLED DialAddr(FALSE)
        /\ pc \in {"Subscribe", "Running"} => Dialed = config.libp2p_nodes
        /\ pc # "Running" => ENABLED ServiceNewNext

\* C9 witness (scenario C): two static peers, the first unreachable, the Service runs
C9_Witness ==
    /\ pc = "Running"
    /\ Len(dials) = 2
    /\ ~dials[1].ok /\ dials[2].ok

\* the five core topics, in the order of subscription
CoreTopics ==
    << topic_builder(BEACON_BLOCK_TOPIC), topic_builder(BEACON_ATTESTATION_TOPIC),
       topic_builder(VOLUNTARY_EXIT_TOPIC), topic_builder(PROPOSER_SLASHING_TOPIC),
       topic_builder(ATTESTER_SLASHING_TOPIC) >>

\* the topics subscribe has been called with so far
Attempted == [i \in 1..Len(subs) |-> subs[i].topic]

\* C10: with n extra topics Service::new attempts 5 + n subscriptions, the five core
\* topics first and then the extras, each once; a refused subscription neither aborts
\* startup nor prevents the attempt or the success of another topic's subscription.
C10_Subscriptions ==
    /\ pc = "Running" =>
           /\ Len(subs) = 5 + Len(config.topics)
           /\ Attempted = CoreTopics \o config.topics
    /\ pc = "Subscribe" =>
           /\ Len(subs) < 5 + Len(config.topics)
           /\ Attempted = Take(CoreTopics \o config.topics, Len(subs))
           /\ ENABLED Subscribe(FALSE)
           /\ (CoreTopics \o config.topics)[Len(subs) + 1] \notin Subscribed(subs)
                  => ENABLED Subscribe(TRUE)
    /\ subs # <<>> => pc \in {"Subscribe", "Running"}

\* C10 witness (scenario D): one extra topic, its subscription refused, the five core
\* subscriptions accepted, the Service runs
C10_Witness ==
    /\ pc = "Running"
    /\ Len(config.topics) = 1
    /\ Len(subs) = 6
    /\ ~subs[6].ok
    /\ \A i \in 1..5 : subs[i].ok

\* C11: Service::poll never reports the end of the stream: every call answers an event
\* or "not ready", except that a call which finds the swarm's event stream ended
\* panics (unreachable!) and returns nothing, after which the Service is not polled again.
C11_NeverEnds ==
    /\ polled.result \in {"none", "Ready", "NotReady", "Panic"}
    /\ polled.swarm = "end" <=> polled.result = "Panic"
    /\ polled.result = "Panic" =>
           /\ ended /\ ready = <<>>
           /\ polled.event = NoEvent
           /\ ~ENABLED (\E answer \in {"event", "not_ready", "end", "error"} : Poll(answer))

\* C11 witness: the swarm's stream ended after an event was emitted, and poll panicked
C11_Witness ==
    /\ ended
    /\ polled.swarm = "end"
    /\ polled.result = "Panic"
    /\ Len(emitted) = 1

-----------------------------------------------------------------------------
(* Properties of the codecs, continued *)

\* the call found a complete frame: the whole length prefix and at least as many
\* payload bytes as it declares
Complete(call) ==
    IF call.len0 # NoLen THEN Len(call.buf0) >= call.len0
    ELSE LET d == decode_usize(call.buf0)
         IN  d.kind = "Ok" /\ Len(call.buf0) - d.consumed >= d.n

UnknownIdentity == protocol \in UnknownProtocols

\* C12 as stated: with an identity outside the four known ones every decode call
\* panics, whatever is buffered and whichever the unknown identity is.
C12_AsStated == UnknownIdentity /\ last.entry = "decode" => last.result = Unreachable

\* C12 amended: with an identity outside the four known ones no decode call returns a
\* decoded message. A declared frame length above the maximum fails with the framing
\* error. Otherwise the inbound codec answers "no result" until a complete frame is
\* buffered and panics on the complete frame; the outbound codec panics on a complete
\* frame and on an incomplete or absent one alike, except that for the message name
\* goodbye, whatever the version, it fails with InvalidProtocol instead of panicking.
\* decode_error does not look at the identity and never panics.
C12_Unknown ==
    UnknownIdentity =>
        /\ last.entry = "decode" =>
               /\ last.result.kind # "Some"
               /\ last.result =
                      IF Declared(last) > dec_max THEN FramingViolation
                      ELSE IF dir = "request"
                      THEN (IF Complete(last) THEN Unreachable ELSE OkNone)
                      ELSE IF protocol.message_name = "goodbye" THEN InvalidProtocol
                      ELSE Unreachable
        /\ last.entry = "decode_error" => last.result.kind # "Panic"
        /\ dead <=> last.result = Unreachable
        /\ \A i \in 1..Len(got) : DOMAIN got[i] = {"error_message"}

\* C12 witness: an inbound codec holding goodbye/2 has panicked on a complete frame
\* after answering "no result" to its first bytes
C12_Witness ==
    /\ protocol = ProtocolId("goodbye", "2")
    /\ dir = "request"
    /\ last.entry = "decode"
    /\ last.len0 # NoLen
    /\ last.result = Unreachable
    /\ dead

\* what the entry point of the last call answers on the same input when the identity
\* carries the supported encoding
WithSsz(call) ==
    LET q == WithEncoding(protocol, "ssz")
    IN  IF call.entry = "decode_error"
        THEN SSZOutboundCodec_decode_error(q, call.len0, dec_max, call.buf0).result
        ELSE IF dir = "request"
        THEN SSZInboundCodec_decode(q, call.len0, dec_max, call.buf0).result
        ELSE SSZOutboundCodec_decode(q, call.len0, dec_max, call.buf0).result

\* C13 as stated: a codec is never constructed from a ProtocolId whose encoding is not
\* the supported one: construction fails, no usable codec is produced.
C13_AsStated == protocol.encoding # "ssz" => built # "built"

\* C13 amended: in a build with debug assertions, construction from a ProtocolId whose
\* encoding is not the supported one panics and no codec is produced, so that no encode
\* or decode call is ever made on it; in a build without debug assertions the check is
\* compiled out and the codec is constructed. Construction never fails otherwise, and
\* no later encode or decode call looks at the encoding: a codec built with another
\* encoding answers as the codec of the same identity with the supported encoding.
C13_Construction ==
    /\ protocol.encoding # "ssz" /\ debug_assertions =>
           /\ built \in {"new", "panicked"}
           /\ last = NoCall
           /\ \A i \in 1..Len(sent) : sent[i].item = RawItem
    /\ protocol.encoding = "ssz" \/ ~debug_assertions => built \in {"new", "built"}
    /\ built = "new" => last = NoCall /\ \A i \in 1..Len(sent) : sent[i].item = RawItem
    /\ built = "built" /\ last.entry # "none" => last.result = WithSsz(last)
    /\ built = "built" => \A i \in 1..Len(sent) : sent[i].ok

\* C13 witness: in a build with debug assertions the constructor has panicked on an
\* unsupported encoding
C13_Witness ==
    /\ debug_assertions
    /\ protocol.encoding = "ssz_snappy"
    /\ built = "panicked"

\* the two identities whose responses are opaque byte payloads
ListProtocols == {ProtocolId("beacon_blocks", "1"), ProtocolId("recent_beacon_blocks", "1")}

\* the inbound codec has encoded one list response of the substream's identity, whose
\* payload is within the maximum frame length of both codecs, and nothing else was
\* written
OneListResponse ==
    /\ dir = "response"
    /\ protocol \in ListProtocols
    /\ Len(sent) = 1
    /\ sent[1].item \in RPCErrorResponses
    /\ sent[1].item.variant = "Success"
    /\ sent[1].item.resp.variant = VariantOf(protocol)
    /\ Len(sent[1].item.resp.body) <= enc_max
    /\ Len(sent[1].item.resp.body) <= dec_max

\* C14: for every byte payload b within the maximum frame length, inbound encode of
\* Success(BeaconBlocks(b)) writes b unchanged behind its length prefix, or nothing when
\* b is empty; the outbound codec on beacon_blocks/1 answers Response::BeaconBlocks(b)
\* to the decode call that finds those bytes buffered (for an empty b: to the decode
\* call made once the stream has closed); likewise RecentBeaconBlocks on
\* recent_beacon_blocks/1.
C14_Passthrough ==
    OneListResponse =>
        LET b == sent[1].item.resp.body
        IN  /\ sent[1].ok
            /\ sent[1].bytes = IF b = <<>> THEN <<>> ELSE <<Len(b)>> \o b
            /\ last.entry = "decode" /\ b # <<>> /\ Complete(last) =>
                   /\ last.result = OkSome([variant |-> VariantOf(protocol), body |-> b])
                   /\ src = <<>>
            /\ last.entry = "decode" /\ b = <<>> /\ closed =>
                   last.result = OkSome([variant |-> VariantOf(protocol), body |-> <<>>])

\* C14 witness: a RecentBeaconBlocks payload of two bytes has been written, the stream
\* has closed and decode has returned the payload
C14_Witness ==
    /\ OneListResponse
    /\ protocol = ProtocolId("recent_beacon_blocks", "1")
    /\ sent[1].bytes = <<2, 0, 9>>
    /\ closed
    /\ last.entry = "decode"
    /\ last.result = OkSome([variant |-> "RecentBeaconBlocks", body |-> <<0, 9>>])

\* the call found a frame begun and not complete: part of the length prefix, or the
\* prefix and fewer payload bytes than it declares (a length within the maximum)
PartlyBuffered(call) ==
    /\ call.len0 # NoLen \/ call.buf0 # <<>>
    /\ ~Complete(call)
    /\ Declared(call) <= dec_max

\* C15: on an outbound codec for beacon_blocks/1 or recent_beacon_blocks/1 a decode call
\* made while a frame is only partly buffered answers "no result yet"; the response
\* with the empty payload is answered only once the stream has ended with zero frames
\* received; a response whose bytes arrive in several chunks is delivered once, with
\* its full payload.
C15_AsStated ==
    dir = "response" /\ protocol \in ListProtocols /\ last.entry = "decode" =>
        /\ PartlyBuffered(last) => last.result = OkNone
        /\ last.result.kind = "Some" /\ last.result.val.body = <<>> /\ ~Complete(last) =>
               closed /\ NothingWritten
        /\ OneListResponse /\ sent[1].item.resp.body # <<>> =>
               \A i \in 1..Len(got) :
                   DOMAIN got[i] = {"variant", "body"} => got[i] = sent[1].item.resp

\* the requests written so far, in the order written
Written == [i \in 1..Len(sent) |-> sent[i].item]

\* C16: when frames are written back to back on one substream then, for any chunking
\* of the byte stream, the successive successful decode calls return the payloads in
\* the order written, each exactly once; the framer is reset after each frame, and no
\* byte of one frame is attributed to another.
C16_Ordered ==
    /\ \A i \in 1..Len(sent) : sent[i].ok
    /\ Len(got) <= Len(sent)
    /\ got = Take(Written, Len(got))
    /\ last.result.kind \in {"Init", "Some", "None"}
    /\ last.result.kind = "Some" =>
           /\ got # <<>>
           /\ last.result.val = Written[Len(got)]
           /\ len = NoLen
    /\ wire = <<>> /\ src = <<>> /\ len = NoLen => got = Written

\* C16 witness: two different requests were written and decoded in order, the second
\* by a call made after its length prefix had been read by an earlier call
C16_Witness ==
    /\ Len(sent) = 2
    /\ sent[1].item # sent[2].item
    /\ got = Written
    /\ last.len0 # NoLen
    /\ last.buf0 # <<>>
    /\ protocol = ProtocolId("recent_beacon_blocks", "1")

\* the payload of the complete frame the call found, and the bytes behind the frame
FrameOf(call) ==
    IF call.len0 # NoLen THEN Take(call.buf0, call.len0)
    ELSE LET d == decode_usize(call.buf0)
         IN  Take(Drop(call.buf0, d.consumed), d.n)

BehindFrame(call) ==
    IF call.len0 # NoLen THEN Drop(call.buf0, call.len0)
    ELSE LET d == decode_usize(call.buf0)
         IN  Drop(call.buf0, d.consumed + d.n)

\* the payload parses as the Request type of the known identity p
ParsesAsRequest(p, packet) ==
    IF p.message_name = "hello" THEN HelloMessage_decode(packet).ok
    ELSE IF p.message_name = "goodbye" THEN GoodbyeReason_decode(packet).ok
    ELSE IF p.message_name = "beacon_blocks" THEN BeaconBlocksRequest_decode(packet).ok
    ELSE RecentBeaconBlocksRequest_decode(packet).ok

\* the last call was an inbound decode that found a complete frame within the maximum
InboundFrame ==
    /\ dir = "request"
    /\ protocol \in KnownProtocols
    /\ last.entry = "decode"
    /\ Complete(last)
    /\ Declared(last) <= dec_max

\* C17: on the inbound codec a complete frame whose payload does not parse as the
\* Request variant of the configured identity makes decode return the decode error -
\* not a panic, not "no result", not a Request of another variant - and the frame's
\* bytes have been consumed from the buffer; a frame that parses is returned as the
\* Request of the identity's variant.
C17_ParseFailure ==
    InboundFrame =>
        /\ ~ParsesAsRequest(protocol, FrameOf(last)) => last.result = SSZDecodeError
        /\ ParsesAsRequest(protocol, FrameOf(last)) =>
               /\ last.result.kind = "Some"
               /\ last.result.val.variant = VariantOf(protocol)
        /\ src = BehindFrame(last)
        /\ len = NoLen
        /\ ~dead

\* C17 witness: the inbound codec of hello/1 has been sent a Goodbye request, and has
\* answered the complete frame with the decode error
C17_Witness ==
    /\ InboundFrame
    /\ protocol = ProtocolId("hello", "1")
    /\ Len(sent) = 1
    /\ sent[1].item \in RPCRequests
    /\ sent[1].item.variant = "Goodbye"
    /\ last.result = SSZDecodeError
    /\ wire = <<>> /\ src = <<>>

\* the inbound codec has written one InvalidRequest / ServerError / Unknown response,
\* and nothing else was written
OneErrorResponse ==
    /\ dir = "response"
    /\ Len(sent) = 1
    /\ sent[1].item \in RPCErrorResponses
    /\ sent[1].item.variant # "Success"
    /\ sent[1].ok

\* C18 as stated: for every error message m, the bytes written by inbound encode of
\* InvalidRequest(m), ServerError(m) or Unknown(m), fed to decode_error, are returned
\* as the error-payload value m.
C18_AsStated ==
    OneErrorResponse /\ last.entry = "decode_error"
        /\ last.len0 = NoLen /\ last.buf0 = sent[1].bytes
    => last.result = OkSome(sent[1].item.err)

\* C18 amended: for every error message m whose serialization is not longer than the
\* maximum frame length of the decoding codec, the bytes written by inbound encode of
\* InvalidRequest(m), ServerError(m) or Unknown(m), fed in any chunks to decode_error,
\* are answered by "no result" until the frame is complete and then by the
\* error-payload value m, a successful result; a declared length above the maximum and
\* a complete frame that does not parse as an error message are answered by a decode
\* failure (Err), and decode_error never answers a failure with a successful result.
C18_RemoteError ==
    last.entry = "decode_error" =>
        /\ OneErrorResponse
               /\ Len(ErrorMessage_encode(sent[1].item.err)) <= dec_max =>
               last.result = IF Complete(last) THEN OkSome(sent[1].item.err) ELSE OkNone
        /\ Declared(last) > dec_max => last.result = FramingViolation
        /\ Declared(last) <= dec_max /\ Complete(last) =>
               LET d == ErrorMessage_decode(FrameOf(last))
               IN  last.result = IF d.ok THEN OkSome(d.val) ELSE SSZDecodeError
        /\ last.result.kind = "Some" => Complete(last) /\ Declared(last) <= dec_max
        /\ last.result.kind \in {"Some", "None", "Err"}

\* C18 witness: ServerError with a one-byte message has been written, has arrived in
\* more than one chunk, and decode_error has returned the message
C18_Witness ==
    /\ OneErrorResponse
    /\ sent[1].item = [variant |-> "ServerError", err |-> [error_message |-> <<9>>]]
    /\ last.entry = "decode_error"
    /\ last.len0 # NoLen
    /\ last.result = OkSome([error_message |-> <<9>>])

\* the encode calls of the outbound codec
OutboundSent == {i \in 1..Len(sent) : dir = "request" /\ sent[i].item \in RPCRequests}

-----------------------------------------------------------------------------
(* Properties of the Service, continued *)

\* what the caller of Service::poll sees of a call: its result and its event
Seen(call) == [result |-> call.result, event |-> call.event]

\* C20: Service::poll never returns an error: when the swarm's poll fails, Service::poll
\* swallows the error, emits no event, takes no event from the swarm and returns what
\* it returns when nothing is ready; the caller cannot tell the two apart.
C20_ErrorSwallowed ==
    /\ polled.result # "Err"
    /\ polled.swarm = "error" =>
           /\ polled.result = "NotReady"
           /\ polled.event = NoEvent
           /\ polled.swarm_polls = 1
           /\ polled.left <= Len(ready)
           /\ Len(emitted) + Len(ready) = Len(produced)
           /\ Seen(polled) = Seen(Service_poll(ready, "not_ready"))

\* C20 witness: the swarm's poll failed while an event was ready; poll answered
\* "not ready" and the event is still with the swarm
C20_Witness ==
    /\ polled.swarm = "error"
    /\ polled.result = "NotReady"
    /\ ready # <<>>
    /\ polled.left = Len(ready)

-----------------------------------------------------------------------------
(* Properties of the codecs: the inbound encoder and the identity *)

\* the bytes a payload is framed to by a codec of the encoder's maximum: nothing for an
\* empty payload and for one longer than the maximum
ExpectedFrame(payload) ==
    IF payload = <<>> \/ Len(payload) > enc_max THEN <<>>
    ELSE <<Len(payload)>> \o payload

\* the serialization of a response, by its own variant alone
ResponsePayload(resp) ==
    IF resp.variant = "Hello" THEN HelloMessage_encode(resp.body) ELSE resp.body

\* C21: what the inbound codec's encode appends depends on the item alone, not on the
\* configured identity and not on the error variant: InvalidRequest(m), ServerError(m)
\* and Unknown(m) give the same bytes, the framed serialization of m without a variant
\* tag, and a Success response is encoded by its own variant whatever the identity of
\* the codec is, also when the two do not match.
C21_ItemOnly ==
    \A i \in InboundSent :
        LET item == sent[i].item
        IN  /\ item.variant # "Success" =>
                   /\ sent[i].bytes = ExpectedFrame(ErrorMessage_encode(item.err))
                   /\ \A v \in {"InvalidRequest", "ServerError", "Unknown"} :
                          sent[i].bytes =
                              SSZInboundCodec_encode(enc_max, [variant |-> v, err |-> item.err],
                                                     <<>>).dst
                   /\ sent[i].ok <=> Len(ErrorMessage_encode(item.err)) <= enc_max
            /\ item.variant = "Success" =>
                   /\ sent[i].bytes = ExpectedFrame(ResponsePayload(item.resp))
                   /\ sent[i].ok <=> Len(ResponsePayload(item.resp)) <= enc_max

\* C21 witness: the inbound codec of goodbye/1, a protocol without a response, has
\* encoded a BeaconBlocks response
C21_Witness ==
    /\ dir = "response" /\ Len(sent) = 1
    /\ protocol = ProtocolId("goodbye", "1")
    /\ sent[1].item = [variant |-> "Success",
                        resp |-> [variant |-> "BeaconBlocks", body |-> <<0, 9>>]]
    /\ sent[1].ok
    /\ sent[1].bytes = <<2, 0, 9>>

-----------------------------------------------------------------------------
(* Properties of Block *)

\* the hash has no byte other than zero
AllZero(h) == \A i \in 1..HashLen : h[i] = 0

\* C22: Block::parent_id answers "no parent" exactly when the block's
\* previous_block_root is the default, all-zero hash, and otherwise answers
\* previous_block_root itself; it never answers Some(default hash).
C22_ParentId ==
    parent # NotAsked =>
        /\ parent = NoParent <=> AllZero(block.previous_block_root)
        /\ ~AllZero(block.previous_block_root) =>
               parent.kind = "Some" /\ parent.val = block.previous_block_root
        /\ parent.kind = "Some" => ~AllZero(parent.val)

\* C22 witness: parent_id has answered a block whose previous_block_root has zero
\* bytes only up to its last byte
C22_Witness ==
    /\ block.previous_block_root = [i \in 1..HashLen |-> IF i = HashLen THEN 1 ELSE 0]
    /\ parent.kind = "Some"
    /\ parent.val = block.previous_block_root

====
